---- MODULE Spec2Model ----
(***************************************************************************)
(* Model of the declarative endpoint-dispatch engine of sfcc-mcp-server:   *)
(* EndpointLoader (registry), DataAPIToolHandler (request builder and tool *)
(* router), DataAPIClient (dispatcher), ConfigurationFactory (capability   *)
(* gate) and the CallTool request handler of SFCCDevServer.                *)
(*                                                                         *)
(* JavaScript values are tagged records, strings are sequences of          *)
(* one-character strings, objects are records, ordered maps (objects that  *)
(* the code iterates with Object.entries) are sequences of <<key, value>>. *)
(***************************************************************************)
EXTENDS Integers, Sequences, FiniteSets, TLC

\* ------------------------------------------------------------------ bounds
\* At most MaxArgs arguments are given in one tool call.
MaxArgs == 3

\* ------------------------------------------------------- JavaScript values
Undef == [t |-> "undefined"]
Null == [t |-> "null"]
Str(s) == [t |-> "string", s |-> s]
Num(n) == [t |-> "number", n |-> n]
Bool(b) == [t |-> "boolean", b |-> b]
Obj(o) == [t |-> "object", o |-> o]
EmptyObj == [k \in {} |-> Undef]

\* Truthiness of a value, as in `if (args.query)` or `!!x`.
Truthy(v) ==
  CASE v.t = "undefined" -> FALSE
    [] v.t = "null" -> FALSE
    [] v.t = "string" -> v.s # << >>
    [] v.t = "number" -> v.n # 0
    [] v.t = "boolean" -> v.b
    [] OTHER -> TRUE

\* !value instead of the three comparisons: every falsy value is blank
IsBlank_falsy(v) == ~Truthy(v)

\* value === undefined || value === null || value === ''
IsBlank(v) == v.t = "undefined" \/ v.t = "null" \/ (v.t = "string" /\ v.s = << >>)

Digit(d) == <<"0", "1", "2", "3", "4", "5", "6", "7", "8", "9">>[d + 1]

RECURSIVE Digits(_)
Digits(n) == IF n < 10 THEN <<Digit(n)>> ELSE Digits(n \div 10) \o <<Digit(n % 10)>>

\* String(value) for the scalar values of the model.
StringOf(v) ==
  CASE v.t = "string" -> v.s
    [] v.t = "number" -> IF v.n < 0 THEN <<"-">> \o Digits(0 - v.n) ELSE Digits(v.n)
    [] v.t = "boolean" -> IF v.b THEN <<"t", "r", "u", "e">> ELSE <<"f", "a", "l", "s", "e">>
    [] v.t = "null" -> <<"n", "u", "l", "l">>
    [] OTHER -> <<"u", "n", "d", "e", "f", "i", "n", "e", "d">>

\* ------------------------------------------------------------ ordered maps
Keys(m) == {m[i][1] : i \in 1..Len(m)}
Has(m, k) == k \in Keys(m)
Get(m, k) == IF Has(m, k) THEN m[CHOOSE i \in 1..Len(m) : m[i][1] = k][2] ELSE Undef
\* obj[k] = v: an existing key keeps its position, a new key is appended.
Put(m, k, v) ==
  IF Has(m, k) THEN [i \in 1..Len(m) |-> IF m[i][1] = k THEN <<k, v>> ELSE m[i]]
  ELSE Append(m, <<k, v>>)

\* --------------------------------------------------- endpoint descriptors
Lit(s) == [lit |-> s]
Ph(n) == [ph |-> n]
IsPh(seg) == "ph" \in DOMAIN seg

Param(n, r) == [name |-> n, required |-> r]

MatchAll == [match_all_query |-> EmptyObj]

S_catalogs == <<"/", "c", "a", "t", "a", "l", "o", "g", "s">>
S_products == <<"/", "p", "r", "o", "d", "u", "c", "t", "s", "/">>
S_product_search == <<"/", "p", "s">>
S_promotions == <<"/", "p", "r", "o", "m", "o">>
S_items == <<"/", "i", "t", "e", "m", "s", "/">>

EpSearchProducts ==
  [toolName |-> "search_products", path |-> <<Lit(S_product_search)>>, method |-> "POST",
   parameters |-> <<Param("site_id", TRUE), Param("query", FALSE), Param("count", FALSE)>>,
   defaultBody |-> [query |-> MatchAll, count |-> Num(25), start |-> Num(0)],
   apiType |-> "ocapi"]

EpGetProduct ==
  [toolName |-> "get_product", path |-> <<Lit(S_products), Ph("product_id")>>, method |-> "GET",
   parameters |-> <<Param("site_id", TRUE), Param("product_id", TRUE), Param("expand", FALSE)>>,
   defaultBody |-> Undef, apiType |-> "ocapi"]

EpGetCatalogs ==
  [toolName |-> "get_catalogs", path |-> <<Lit(S_catalogs)>>, method |-> "GET",
   parameters |-> <<Param("count", FALSE), Param("start", FALSE)>>,
   defaultBody |-> Undef, apiType |-> "ocapi"]

EpSearchPromotions ==
  [toolName |-> "search_promotions", path |-> <<Lit(S_promotions)>>, method |-> "POST",
   parameters |-> <<Param("site_id", TRUE), Param("campaign_id", FALSE)>>,
   defaultBody |-> [query |-> MatchAll], apiType |-> "ocapi"]

\* Descriptors of the kinds the client tests build from the catalog format.
EpInvalidMethod == [EpGetCatalogs EXCEPT !.method = "INVALID"]

EpUpdateItem ==
  [toolName |-> "update_item", path |-> <<Lit(S_items), Ph("product_id")>>, method |-> "PUT",
   parameters |-> <<Param("product_id", TRUE), Param("query", FALSE), Param("count", FALSE)>>,
   defaultBody |-> [query |-> MatchAll, count |-> Num(25)], apiType |-> "ocapi"]

\* patch_item names its placeholder twice: /items/{product_id}/{product_id}
EpPatchItem ==
  [toolName |-> "patch_item", path |-> <<Lit(S_items), Ph("product_id"), Lit(<<"/">>), Ph("product_id")>>,
   method |-> "PATCH",
   parameters |-> <<Param("product_id", TRUE)>>,
   defaultBody |-> Undef, apiType |-> "scapi"]

EpDeleteItem ==
  [toolName |-> "delete_item", path |-> <<Lit(S_items), Ph("product_id")>>, method |-> "DELETE",
   parameters |-> <<Param("product_id", TRUE), Param("count", FALSE)>>,
   defaultBody |-> Undef, apiType |-> "ocapi"]

\* search_coupons, a name of the operation table, described with method PUT.
EpSearchCoupons ==
  [toolName |-> "search_coupons", path |-> <<Lit(S_promotions)>>, method |-> "PUT",
   parameters |-> <<Param("site_id", TRUE), Param("query", FALSE), Param("start", FALSE)>>,
   defaultBody |-> [query |-> MatchAll, start |-> Num(0)], apiType |-> "ocapi"]

\* What reading config/endpoints.json can give: a document with an endpoints
\* array, a document without one, or a failure to read or parse.
ReadFailed == [ok |-> FALSE, hasList |-> FALSE, endpoints |-> << >>]
Document(list) == [ok |-> TRUE, hasList |-> TRUE, endpoints |-> list]
NoListDocument == [ok |-> TRUE, hasList |-> FALSE, endpoints |-> << >>]

CatalogA == Document(<<EpSearchProducts, EpGetProduct, EpGetCatalogs, EpSearchPromotions>>)
\* CatalogB names get_catalogs twice
CatalogB == Document(<<EpGetCatalogs, EpInvalidMethod, EpUpdateItem, EpPatchItem, EpDeleteItem, EpSearchCoupons>>)

CatalogReads == {CatalogA, CatalogB, NoListDocument, ReadFailed}

\* ---------------------------------------------------------- EndpointLoader
getDefaultEndpoints == <<[EpGetCatalogs EXCEPT !.parameters = << >>]>>

RECURSIVE SetAll(_, _)
\* for (const endpoint of list) map.set(endpoint.toolName, endpoint)
SetAll(map, list) ==
  IF list = << >> THEN map
  ELSE SetAll(Put(map, Head(list).toolName, Head(list)), Tail(list))

\* loadEndpoints(): the new <<endpoints, endpointMap>> given the map it starts from.
loadEndpoints(map, read) ==
  IF ~read.ok THEN <<getDefaultEndpoints, map>>
  ELSE IF read.hasList THEN <<read.endpoints, SetAll(map, read.endpoints)>>
  ELSE << << >>, map>>

getEndpoint(map, toolName) == Get(map, toolName)
hasEndpoint(map, toolName) == Has(map, toolName)
getToolNames(eps) == [i \in 1..Len(eps) |-> eps[i].toolName]
getToolNameSet(eps) == {eps[i].toolName : i \in 1..Len(eps)}

\* -------------------------------------------------------- string helpers
IsSpace(c) == c = " "

RECURSIVE TrimLeft(_)
TrimLeft(s) == IF s # << >> /\ IsSpace(Head(s)) THEN TrimLeft(Tail(s)) ELSE s

RECURSIVE TrimRight(_)
TrimRight(s) ==
  IF s # << >> /\ IsSpace(s[Len(s)]) THEN TrimRight(SubSeq(s, 1, Len(s) - 1)) ELSE s

\* String.prototype.trim
Trim(s) == TrimRight(TrimLeft(s))

RECURSIVE SplitFrom(_, _, _)
\* the items of s after the current item cur, split at sep
SplitFrom(s, sep, cur) ==
  IF s = << >> THEN <<cur>>
  ELSE IF Head(s) = sep THEN <<cur>> \o SplitFrom(Tail(s), sep, << >>)
  ELSE SplitFrom(Tail(s), sep, Append(cur, Head(s)))

\* String.prototype.split(sep) for a one-character separator
Split(s, sep) == SplitFrom(s, sep, << >>)

\* encodeURIComponent of one character
EncChar(c) ==
  CASE c = " " -> <<"%", "2", "0">>
    [] c = "&" -> <<"%", "2", "6">>
    [] c = "=" -> <<"%", "3", "D">>
    [] c = "," -> <<"%", "2", "C">>
    [] c = "/" -> <<"%", "2", "F">>
    [] c = "?" -> <<"%", "3", "F">>
    [] c = "{" -> <<"%", "7", "B">>
    [] c = "}" -> <<"%", "7", "D">>
    [] OTHER -> <<c>>

RECURSIVE encodeURIComponent(_)
encodeURIComponent(s) ==
  IF s = << >> THEN << >> ELSE EncChar(Head(s)) \o encodeURIComponent(Tail(s))

\* ------------------------------------------- DataAPIToolHandler: builder
ArgNames == {"site_id", "product_id", "query", "count", "start", "expand", "campaign_id", "locale", "body"}

SetField(obj, k, v) == [x \in (DOMAIN obj) \cup {k} |-> IF x = k THEN v ELSE obj[x]]

PathIncludes(path, n) == \E i \in 1..Len(path) : IsPh(path[i]) /\ path[i].ph = n

getSearchFieldsForTool(toolName) ==
  CASE toolName = "search_products" -> <<"id", "name">>
    [] toolName = "search_customers" -> <<"email", "first_name", "last_name">>
    [] toolName = "search_orders" -> <<"order_no", "customer_email">>
    [] OTHER -> <<"id", "name">>

RECURSIVE ClassifyParams_dup(_, _, _, _)
\* the loop without its else: a path parameter is also put in queryParams
ClassifyParams_dup(endpoint, ps, args, acc) ==
  IF ps = << >> THEN acc
  ELSE LET param == Head(ps)
           value == IF param.name \in DOMAIN args THEN args[param.name] ELSE Undef
           next ==
             IF IsBlank(value) THEN acc
             ELSE IF PathIncludes(endpoint.path, param.name)
               THEN <<Put(acc[1], param.name, Str(StringOf(value))), Put(acc[2], param.name, value)>>
             ELSE IF param.name # "query"
               THEN <<acc[1], Put(acc[2], param.name, value)>>
             ELSE acc
       IN ClassifyParams_dup(endpoint, Tail(ps), args, next)

RECURSIVE ClassifyParams(_, _, _, _)
\* the for-loop over endpoint.parameters: acc is <<pathParams, queryParams>>
ClassifyParams(endpoint, ps, args, acc) ==
  IF ps = << >> THEN acc
  ELSE LET param == Head(ps)
           value == IF param.name \in DOMAIN args THEN args[param.name] ELSE Undef
           next ==
             IF IsBlank(value) THEN acc
             ELSE IF PathIncludes(endpoint.path, param.name)
               THEN <<Put(acc[1], param.name, Str(StringOf(value))), acc[2]>>
             ELSE IF param.name # "query"
               THEN <<acc[1], Put(acc[2], param.name, value)>>
             ELSE acc
       IN ClassifyParams(endpoint, Tail(ps), args, next)

TextQuery(toolName, phrase) ==
  [text_query |-> [fields |-> getSearchFieldsForTool(toolName), search_phrase |-> phrase]]

TermQuery(campaign) ==
  [term_query |-> [fields |-> <<"campaign_id">>, operator |-> "is", values |-> <<campaign>>]]

\* the body block with the campaign filter applied before the text query
BuildBody_textLast(endpoint, toolName, args) ==
  LET b0 == endpoint.defaultBody
      b1 == IF toolName = "search_promotions" /\ Truthy(args.campaign_id)
              THEN SetField(b0, "query", TermQuery(args.campaign_id)) ELSE b0
      b2 == IF args.count # Undef THEN SetField(b1, "count", args.count) ELSE b1
      b3 == IF args.start # Undef THEN SetField(b2, "start", args.start) ELSE b2
      b4 == IF Truthy(args.expand)
              THEN SetField(b3, "expand",
                     [i \in 1..Len(Split(args.expand.s, ",")) |-> Trim(Split(args.expand.s, ",")[i])])
              ELSE b3
      b5 == IF Truthy(args.query) THEN SetField(b4, "query", TextQuery(toolName, args.query)) ELSE b4
  IN b5

\* the body block with the fields of an explicit body argument assigned on
\* the seed before the query overrides
BuildBody_callerBody(endpoint, toolName, args) ==
  LET seed == endpoint.defaultBody
      b0 == IF args.body # Undef
              THEN [x \in (DOMAIN seed) \cup (DOMAIN args.body.o) |->
                      IF x \in DOMAIN args.body.o THEN args.body.o[x] ELSE seed[x]]
              ELSE seed
      b1 == IF Truthy(args.query) THEN SetField(b0, "query", TextQuery(toolName, args.query)) ELSE b0
      b2 == IF args.count # Undef THEN SetField(b1, "count", args.count) ELSE b1
      b3 == IF args.start # Undef THEN SetField(b2, "start", args.start) ELSE b2
      b4 == IF Truthy(args.expand)
              THEN SetField(b3, "expand",
                     [i \in 1..Len(Split(args.expand.s, ",")) |-> Trim(Split(args.expand.s, ",")[i])])
              ELSE b3
      b5 == IF toolName = "search_promotions" /\ Truthy(args.campaign_id)
              THEN SetField(b4, "query", TermQuery(args.campaign_id)) ELSE b4
  IN b5

\* the body block of buildRequestParams, for a POST endpoint with a defaultBody
BuildBody(endpoint, toolName, args) ==
  LET b0 == endpoint.defaultBody
      b1 == IF Truthy(args.query) THEN SetField(b0, "query", TextQuery(toolName, args.query)) ELSE b0
      b2 == IF args.count # Undef THEN SetField(b1, "count", args.count) ELSE b1
      b3 == IF args.start # Undef THEN SetField(b2, "start", args.start) ELSE b2
      b4 == IF Truthy(args.expand)
              THEN SetField(b3, "expand",
                     [i \in 1..Len(Split(args.expand.s, ",")) |-> Trim(Split(args.expand.s, ",")[i])])
              ELSE b3
      b5 == IF toolName = "search_promotions" /\ Truthy(args.campaign_id)
              THEN SetField(b4, "query", TermQuery(args.campaign_id)) ELSE b4
  IN b5

HasBodyBlock(endpoint) == endpoint.method = "POST" /\ endpoint.defaultBody # Undef

\* args.expand.split is not a function: expand is truthy and no string
BuildThrows(map, toolName, args) ==
  LET endpoint == getEndpoint(map, toolName)
  IN /\ endpoint # Undef
     /\ HasBodyBlock(endpoint)
     /\ Truthy(args.expand)
     /\ args.expand.t # "string"

buildRequestParams(map, toolName, args) ==
  LET endpoint == getEndpoint(map, toolName)
  IN IF endpoint = Undef
       THEN [pathParams |-> << >>, queryParams |-> << >>, body |-> Undef]
       ELSE LET pq == ClassifyParams(endpoint, endpoint.parameters, args, << << >>, << >> >>)
            IN [pathParams |-> pq[1], queryParams |-> pq[2],
                body |-> IF HasBodyBlock(endpoint) THEN BuildBody(endpoint, toolName, args) ELSE Undef]

\* ------------------------------------------------- DataAPIClient: dispatch
RECURSIVE ReplaceFirst(_, _, _)
\* path.replace(`{${key}}`, text): only the first occurrence is replaced
ReplaceFirst(path, key, text) ==
  IF path = << >> THEN << >>
  ELSE IF IsPh(Head(path)) /\ Head(path).ph = key THEN <<Lit(text)>> \o Tail(path)
  ELSE <<Head(path)>> \o ReplaceFirst(Tail(path), key, text)

RECURSIVE ReplacePathParams(_, _)
ReplacePathParams(path, pathParams) ==
  IF pathParams = << >> THEN path
  ELSE ReplacePathParams(
         ReplaceFirst(path, Head(pathParams)[1], encodeURIComponent(StringOf(Head(pathParams)[2]))),
         Tail(pathParams))

RECURSIVE RenderPath(_)
\* the characters of a path; an unresolved placeholder stays as {name}
RenderPath(path) ==
  IF path = << >> THEN << >>
  ELSE (IF IsPh(Head(path)) THEN <<"{", Head(path).ph, "}">> ELSE Head(path).lit)
       \o RenderPath(Tail(path))

RECURSIVE FilterQuery_keepBlank(_)
\* the filter without its test: every entry is kept
FilterQuery_keepBlank(queryParams) ==
  IF queryParams = << >> THEN << >>
  ELSE << <<Head(queryParams)[1], StringOf(Head(queryParams)[2])>> >>
       \o FilterQuery_keepBlank(Tail(queryParams))

RECURSIVE FilterQuery(_)
\* the queryParams entries that are not undefined, null or '', as strings
FilterQuery(queryParams) ==
  IF queryParams = << >> THEN << >>
  ELSE (IF IsBlank(Head(queryParams)[2]) THEN << >>
        ELSE << <<Head(queryParams)[1], StringOf(Head(queryParams)[2])>> >>)
       \o FilterQuery(Tail(queryParams))

\* encodeURIComponent(key): a key is one token of the model; a parameter name
\* made of letters, digits and underscores is left as it is.
EncodeKey(k) == IF k = "a b" THEN "a%20b" ELSE k

RECURSIVE JoinQuery(_)
JoinQuery(entries) ==
  IF entries = << >> THEN << >>
  ELSE <<EncodeKey(Head(entries)[1]), "=">> \o encodeURIComponent(Head(entries)[2])
       \o (IF Tail(entries) = << >> THEN << >> ELSE <<"&">> \o JoinQuery(Tail(entries)))

buildUrl(endpoint, params) ==
  LET path == RenderPath(ReplacePathParams(endpoint.path, params.pathParams))
      queryString == JoinQuery(FilterQuery(params.queryParams))
  IN IF queryString # << >> THEN path \o <<"?">> \o queryString ELSE path

\* Object.assign(target, source)
Assign(target, source) ==
  [x \in (DOMAIN target) \cup (DOMAIN source) |-> IF x \in DOMAIN source THEN source[x] ELSE target[x]]

\* buildRequestBody with the arguments of Object.assign swapped: defaults win
buildRequestBody_defaultsWin(endpoint, params) ==
  LET body == IF endpoint.defaultBody # Undef THEN endpoint.defaultBody ELSE EmptyObj
  IN IF params.body # Undef THEN Assign(params.body, body) ELSE body

buildRequestBody(endpoint, params) ==
  LET body == IF endpoint.defaultBody # Undef THEN endpoint.defaultBody ELSE EmptyObj
  IN IF params.body # Undef THEN Assign(body, params.body) ELSE body

\* a settled promise
Resolved(value) == [settled |-> "resolved", value |-> value]
Rejected(error) == [settled |-> "rejected", error |-> error]

\* new Error(message)
Error(message) == [isError |-> TRUE, message |-> message]

Failure(status, error) == [data |-> Null, status |-> status, success |-> FALSE, error |-> error]
Success(data) == [data |-> data, status |-> 200, success |-> TRUE]

UnknownEndpointMsg(toolName) == <<"Unknown endpoint: ", toolName>>
UnsupportedMethodMsg(method) == <<"Unsupported HTTP method: ", method>>

TransportCall(verb, arguments) == [issued |-> TRUE, verb |-> verb, arguments |-> arguments]

\* executeEndpoint with the registry miss answered by status 404
executeEndpoint_status404(map, toolName, params) ==
  LET endpoint == getEndpoint(map, toolName)
  IN IF endpoint = Undef
       THEN [issued |-> FALSE, returned |-> Resolved(Failure(404, UnknownEndpointMsg(toolName)))]
     ELSE LET url == buildUrl(endpoint, params)
          IN CASE endpoint.method = "GET" -> TransportCall("get", <<url>>)
               [] endpoint.method = "POST" -> TransportCall("post", <<url, buildRequestBody(endpoint, params)>>)
               [] endpoint.method = "PUT" -> TransportCall("put", <<url, buildRequestBody(endpoint, params)>>)
               [] endpoint.method = "PATCH" -> TransportCall("patch", <<url, buildRequestBody(endpoint, params)>>)
               [] endpoint.method = "DELETE" -> TransportCall("delete", <<url>>)
               [] OTHER -> [issued |-> FALSE,
                            returned |-> Resolved(Failure(500, UnsupportedMethodMsg(endpoint.method)))]

\* executeEndpoint with DELETE falling through to the body-sending branch
executeEndpoint_deleteBody(map, toolName, params) ==
  LET endpoint == getEndpoint(map, toolName)
  IN IF endpoint = Undef
       THEN [issued |-> FALSE, returned |-> Resolved(Failure(400, UnknownEndpointMsg(toolName)))]
     ELSE LET url == buildUrl(endpoint, params)
          IN CASE endpoint.method = "GET" -> TransportCall("get", <<url>>)
               [] endpoint.method = "POST" -> TransportCall("post", <<url, buildRequestBody(endpoint, params)>>)
               [] endpoint.method = "PUT" -> TransportCall("put", <<url, buildRequestBody(endpoint, params)>>)
               [] endpoint.method = "PATCH" -> TransportCall("patch", <<url, buildRequestBody(endpoint, params)>>)
               [] endpoint.method = "DELETE" -> TransportCall("delete", <<url, buildRequestBody(endpoint, params)>>)
               [] OTHER -> [issued |-> FALSE,
                            returned |-> Resolved(Failure(500, UnsupportedMethodMsg(endpoint.method)))]

\* executeEndpoint up to its await: either a transport call to wait for, or
\* the response it returns at once.
executeEndpoint(map, toolName, params) ==
  LET endpoint == getEndpoint(map, toolName)
  IN IF endpoint = Undef
       THEN [issued |-> FALSE, returned |-> Resolved(Failure(400, UnknownEndpointMsg(toolName)))]
     ELSE LET url == buildUrl(endpoint, params)
          IN CASE endpoint.method = "GET" -> TransportCall("get", <<url>>)
               [] endpoint.method = "POST" -> TransportCall("post", <<url, buildRequestBody(endpoint, params)>>)
               [] endpoint.method = "PUT" -> TransportCall("put", <<url, buildRequestBody(endpoint, params)>>)
               [] endpoint.method = "PATCH" -> TransportCall("patch", <<url, buildRequestBody(endpoint, params)>>)
               [] endpoint.method = "DELETE" -> TransportCall("delete", <<url>>)
               [] OTHER -> [issued |-> FALSE,
                            returned |-> Resolved(Failure(500, UnsupportedMethodMsg(endpoint.method)))]

\* error instanceof Error ? error.message : String(error)
CaughtMessage(error) == IF error.isError THEN error.message ELSE StringOf(error.value)

\* executeEndpoint after its await: the promise it returns
executeEndpointResolved(payload) == Resolved(Success(payload))

\* executeEndpoint without its catch: the transport's error passes through
executeEndpointRejected_uncaught(error) == Rejected(error)

executeEndpointRejected(error) == Resolved(Failure(500, CaughtMessage(error)))

\* ------------------------------------------------- ConfigurationFactory
S_host == <<"h", "o", "s", "t">>
S_secret == <<"x">>

Config(hostname, username, password, clientId, clientSecret, siteId) ==
  [hostname |-> hostname, username |-> username, password |-> password,
   clientId |-> clientId, clientSecret |-> clientSecret, siteId |-> siteId]

ConfigLocal == Config(Str(<< >>), Undef, Undef, Undef, Undef, Undef)
ConfigBasic == Config(Str(S_host), Str(S_secret), Str(S_secret), Undef, Undef, Undef)
ConfigOAuth == Config(Str(S_host), Undef, Undef, Str(S_secret), Str(S_secret), Str(<<"R">>))
ConfigBlankHost == Config(Str(<<" ">>), Undef, Undef, Str(S_secret), Str(S_secret), Undef)

Configs == {ConfigLocal, ConfigBasic, ConfigOAuth, ConfigBlankHost}

\* every configuration getCapabilities is checked on: each field undefined,
\* empty or set, the hostname also blank
CapabilityConfigs ==
  {Config(h, u, pw, id, sec, Undef) :
     h \in {Undef, Str(<< >>), Str(<<" ">>), Str(S_host)},
     u \in {Undef, Str(<< >>), Str(S_secret)},
     pw \in {Undef, Str(<< >>), Str(S_secret)},
     id \in {Undef, Str(<< >>), Str(S_secret)},
     sec \in {Undef, Str(<< >>), Str(S_secret)}}

\* getCapabilities that takes any non-empty hostname, blank or not
getCapabilities_noTrim(cfg) ==
  LET hasWebDAVCredentials == (Truthy(cfg.username) /\ Truthy(cfg.password))
                              \/ (Truthy(cfg.clientId) /\ Truthy(cfg.clientSecret))
      hasOAuthCredentials == Truthy(cfg.clientId) /\ Truthy(cfg.clientSecret)
      hasHostname == Truthy(cfg.hostname)
  IN [canAccessLogs |-> hasWebDAVCredentials /\ hasHostname,
      canAccessOCAPI |-> hasOAuthCredentials /\ hasHostname,
      canAccessWebDAV |-> hasWebDAVCredentials /\ hasHostname,
      isLocalMode |-> ~hasHostname /\ ~hasWebDAVCredentials]

\* ConfigurationFactory.getCapabilities
getCapabilities(cfg) ==
  LET hasWebDAVCredentials == (Truthy(cfg.username) /\ Truthy(cfg.password))
                              \/ (Truthy(cfg.clientId) /\ Truthy(cfg.clientSecret))
      hasOAuthCredentials == Truthy(cfg.clientId) /\ Truthy(cfg.clientSecret)
      hasHostname == Truthy(cfg.hostname) /\ Trim(cfg.hostname.s) # << >>
  IN [canAccessLogs |-> hasWebDAVCredentials /\ hasHostname,
      canAccessOCAPI |-> hasOAuthCredentials /\ hasHostname,
      canAccessWebDAV |-> hasWebDAVCredentials /\ hasHostname,
      isLocalMode |-> ~hasHostname /\ ~hasWebDAVCredentials]

\* ------------------------------------------- DataAPIToolHandler: routing
\* the operation table with the required arguments of get_product swapped
ToolConfig_productFirst ==
  [search_products |-> << >>,
   get_product |-> <<"product_id", "site_id">>,
   get_catalogs |-> << >>,
   get_catalog |-> <<"catalog_id">>,
   get_categories |-> <<"catalog_id">>,
   get_category |-> <<"catalog_id", "category_id">>,
   get_sites |-> << >>,
   get_site |-> <<"site_id">>,
   search_campaigns |-> <<"site_id">>,
   get_campaign |-> <<"site_id", "campaign_id">>,
   search_promotions |-> <<"site_id">>,
   search_coupons |-> <<"site_id">>,
   get_inventory_lists |-> << >>,
   get_inventory_list |-> <<"inventory_list_id">>,
   get_product_inventory |-> <<"inventory_list_id", "product_id">>,
   search_customers |-> <<"site_id">>,
   get_customer |-> <<"site_id", "customer_id">>,
   get_customer_groups |-> <<"site_id">>,
   search_custom_objects |-> <<"object_type">>,
   get_custom_object |-> <<"object_type", "key">>,
   search_orders |-> <<"site_id">>,
   get_order |-> <<"site_id", "order_no">>,
   get_locales |-> << >>,
   get_currencies |-> << >>,
   get_price_books |-> << >>,
   get_price_book |-> <<"price_book_id">>,
   get_content_assets |-> <<"library_id">>,
   get_content_asset |-> <<"library_id", "content_id">>]

\* the operation table without any validate
ToolConfig_noValidate == [name \in DOMAIN ToolConfig_productFirst |-> << >>]

\* getToolConfig(): the required-argument list of each operation (empty when
\* the operation has no validate).
ToolConfig ==
  [search_products |-> << >>,
   get_product |-> <<"site_id", "product_id">>,
   get_catalogs |-> << >>,
   get_catalog |-> <<"catalog_id">>,
   get_categories |-> <<"catalog_id">>,
   get_category |-> <<"catalog_id", "category_id">>,
   get_sites |-> << >>,
   get_site |-> <<"site_id">>,
   search_campaigns |-> <<"site_id">>,
   get_campaign |-> <<"site_id", "campaign_id">>,
   search_promotions |-> <<"site_id">>,
   search_coupons |-> <<"site_id">>,
   get_inventory_lists |-> << >>,
   get_inventory_list |-> <<"inventory_list_id">>,
   get_product_inventory |-> <<"inventory_list_id", "product_id">>,
   search_customers |-> <<"site_id">>,
   get_customer |-> <<"site_id", "customer_id">>,
   get_customer_groups |-> <<"site_id">>,
   search_custom_objects |-> <<"object_type">>,
   get_custom_object |-> <<"object_type", "key">>,
   search_orders |-> <<"site_id">>,
   get_order |-> <<"site_id", "order_no">>,
   get_locales |-> << >>,
   get_currencies |-> << >>,
   get_price_books |-> << >>,
   get_price_book |-> <<"price_book_id">>,
   get_content_assets |-> <<"library_id">>,
   get_content_asset |-> <<"library_id", "content_id">>]

\* new DataAPIClient(config)
NewDataAPIClient(cfg) == [siteId |-> cfg.siteId]

\* onInitialize() without the capability check
onInitialize_always(caps, cfg, client) == NewDataAPIClient(cfg)

\* onInitialize(): the dataAPIClient field afterwards
onInitialize(caps, cfg, client) ==
  IF ~caps.canAccessOCAPI THEN client ELSE NewDataAPIClient(cfg)

NotInitializedMsg == <<"Data API client not initialized. Check OCAPI credentials.">>
UnknownErrorMsg == <<"Unknown error occurred">>
SplitTypeErrorMsg == <<"args.expand.split is not a function">>

\* exec that never looks at response.success
ExecThrows_never(response) == FALSE

\* What exec (the handler's executeEndpoint) does with the dispatcher's
\* response: it throws the error text or returns the data. A response
\* without an error field is one whose error is undefined.
ExecThrows(response) == ~response.success
ExecThrownMsg(response) ==
  IF "error" \in DOMAIN response THEN response.error ELSE UnknownErrorMsg

\* BaseToolHandler
canHandle(names, name) == name \in names

ArgOf(args, field) == IF field \in DOMAIN args THEN args[field] ELSE Undef

RECURSIVE validateArgs(_, _)
\* the first required field that args lacks, as a one-element sequence, or << >>
validateArgs(args, required) ==
  IF required = << >> THEN << >>
  ELSE IF ArgOf(args, Head(required)) = Undef THEN <<Head(required)>>
  ELSE validateArgs(args, Tail(required))

RequiredMsg(field) == <<field, " is required">>
UnsupportedToolMsg(name) == <<"Unsupported tool: ", name>>
UnknownToolMsg(name) == <<"Unknown tool: ", name>>

Envelope(isError, prefix, body) == [isError |-> isError, text |-> [prefix |-> prefix, body |-> body]]
createResponse(data) == Envelope(FALSE, "", [json |-> data])
createErrorResponse(msg) == Envelope(TRUE, "", [message |-> msg])

\* the CallTool handler without its catch: a rejection escapes, no envelope
CallToolResult_uncaught(handled) ==
  IF handled.settled = "resolved" THEN handled.value ELSE [t |-> "none"]

\* SFCCDevServer: what the CallTool handler returns for the way handle settled
CallToolResult(handled) ==
  IF handled.settled = "resolved" THEN handled.value
  ELSE Envelope(TRUE, "Error: ", [message |-> CaughtMessage(handled.error)])

\* ------------------------------------------------------------ the inputs
S_shoes == <<"s", "h", "o", "e", "s">>
S_summer == <<"s", "u", "m">>

\* the values a call may give to each argument
ArgValues ==
  [site_id |-> {Str(<<"R">>)},
   product_id |-> {Str(<<"a", " ", "b">>), Num(42)},
   query |-> {Str(S_shoes), Str(<< >>)},
   count |-> {Num(0), Null},
   start |-> {Num(5), Bool(FALSE)},
   expand |-> {Str(<<"a", ",", " ", "b">>), Num(7)},
   campaign_id |-> {Str(S_summer), Str(<< >>)},
   locale |-> {Str(<<"e", "n">>)},
   body |-> {Obj([custom_field |-> Str(<<"v">>), count |-> Num(5)])}]

ArgsOver(K) ==
  {[k \in ArgNames |-> IF k \in K THEN f[k] ELSE Undef] :
     f \in {g \in [K -> UNION {ArgValues[k] : k \in K}] : \A k \in K : g[k] \in ArgValues[k]}}

\* the argument bags: at most MaxArgs of the arguments are given
ArgBags == UNION {ArgsOver(K) : K \in {J \in SUBSET ArgNames : Cardinality(J) <= MaxArgs}}

\* the tool names a request may carry
CallNames ==
  {"search_products", "get_product", "get_catalogs", "search_promotions",
   "update_item", "patch_item", "delete_item", "search_coupons", "unknown_tool"}

\* the params a direct caller of DataAPIClient.executeEndpoint may pass
ParamSamples ==
  {[pathParams |-> << >>, queryParams |-> << >>, body |-> Undef],
   [pathParams |-> <<<<"product_id", Str(<<"a", " ", "b">>)>>>>,
    queryParams |-> <<<<"count", Num(10)>>, <<"empty", Str(<< >>)>>, <<"nullish", Null>>>>,
    body |-> Undef],
   [pathParams |-> <<<<"site_id", Str(<<"R">>)>>>>, queryParams |-> << >>,
    body |-> [custom_field |-> Str(<<"v">>), count |-> Num(5), query |-> [custom_query |-> EmptyObj]]],
   [pathParams |-> << >>,
    queryParams |-> <<<<"a b", Str(<<"x", "&", "y">>)>>, <<"flag", Bool(FALSE)>>, <<"n", Num(0)>>>>,
    body |-> Undef]}

\* what the transport can answer
Payloads == {[total |-> Num(0)], EmptyObj}
TransportStatuses == {200, 201}
TransportErrors == {Error(<<"API Error">>), [isError |-> FALSE, value |-> Str(<<"b", "o", "o", "m">>)]}

\* ------------------------------------------------------------- the state
None == [t |-> "none"]
IdleCall == [pc |-> "idle"]

VARIABLES
  endpoints,      \* EndpointLoader.endpoints
  endpointMap,    \* EndpointLoader.endpointMap
  catalogRead,    \* what the last loadEndpoints got from reading the catalog
  config,         \* SFCCDevServer.config
  capabilities,   \* SFCCDevServer.capabilities
  toolNameSet,    \* DataAPIToolHandler.toolNameSet
  isInitialized,  \* BaseToolHandler: initialize() has run
  dataAPIClient,  \* DataAPIToolHandler.dataAPIClient (Null or the client)
  call,           \* the request in progress
  peer            \* a second request in progress at the same time

vars == <<endpoints, endpointMap, catalogRead, config, capabilities, toolNameSet, isInitialized, dataAPIClient, call, peer>>

registry == <<endpoints, endpointMap, catalogRead>>
server == <<config, capabilities>>
handler == <<toolNameSet, isInitialized, dataAPIClient>>

Init ==
  /\ \E read \in CatalogReads :
       /\ endpoints = loadEndpoints(<< >>, read)[1]
       /\ endpointMap = loadEndpoints(<< >>, read)[2]
       /\ catalogRead = read
  /\ config \in Configs
  /\ capabilities = getCapabilities(config)
  /\ toolNameSet = getToolNameSet(endpoints)
  /\ isInitialized = FALSE
  /\ dataAPIClient = Null
  /\ call = IdleCall
  /\ peer = IdleCall

\* reload() that loads into the index it finds (no clear)
Reload_noClear ==
  /\ \E read \in CatalogReads :
       /\ endpoints' = loadEndpoints(endpointMap, read)[1]
       /\ endpointMap' = loadEndpoints(endpointMap, read)[2]
       /\ catalogRead' = read
  /\ UNCHANGED <<server, handler, call, peer>>

\* EndpointLoader.reload()
Reload ==
  /\ \E read \in CatalogReads :
       /\ endpoints' = loadEndpoints(<< >>, read)[1]
       /\ endpointMap' = loadEndpoints(<< >>, read)[2]
       /\ catalogRead' = read
  /\ UNCHANGED <<server, handler, call, peer>>

NewCall(entry, name, args) ==
  [pc |-> "done", entry |-> entry, name |-> name, args |-> args, params |-> None,
   endpoint |-> None, dispatched |-> 0, sent |-> << >>, transportStatus |-> 0,
   transportPayload |-> None, transportError |-> None, returned |-> None, handled |-> None, result |-> None,
   site |-> None]

\* handle settles and the CallTool handler of the server answers
Settle(c, handled) ==
  [c EXCEPT !.pc = "done", !.handled = handled, !.result = CallToolResult(handled)]

\* DataAPIClient.executeEndpoint is entered: up to its await or its return
Dispatch(c, params) ==
  LET d == executeEndpoint(endpointMap, c.name, params)
      c1 == [c EXCEPT !.params = params, !.dispatched = c.dispatched + 1,
                      !.endpoint = getEndpoint(endpointMap, c.name)]
  IN IF d.issued THEN [c1 EXCEPT !.pc = "awaitTransport", !.sent = Append(c.sent, d)]
     ELSE [c1 EXCEPT !.returned = d.returned]

\* DataAPIToolHandler.executeEndpoint once the dispatcher's promise is settled;
\* what it throws is caught by the base handler and made an error envelope
AfterDispatch(c) ==
  IF c.returned.settled = "rejected"
    THEN Settle(c, Resolved(createErrorResponse(CaughtMessage(c.returned.error))))
  ELSE IF ExecThrows(c.returned.value)
    THEN Settle(c, Resolved(createErrorResponse(ExecThrownMsg(c.returned.value))))
  ELSE Settle(c, Resolved(createResponse(c.returned.value.data)))

\* a builder and dispatcher that write into endpoint.defaultBody itself
descriptorAfter_aliased(endpoint, params) ==
  IF endpoint.defaultBody # Undef /\ params.body # Undef
    THEN [endpoint EXCEPT !.defaultBody = params.body]
    ELSE endpoint

\* The descriptor after buildRequestParams and buildRequestBody have run on
\* it: both write into a copy ({...endpoint.defaultBody}), and every write is
\* an assignment to a field of that copy.
descriptorAfter(endpoint, params) == endpoint

\* the descriptor list and the index after the step that left a request as c
endpointsAfter(c) ==
  IF c.pc = "idle" \/ c.params = None \/ c.endpoint = Undef THEN endpoints
  ELSE [i \in 1..Len(endpoints) |->
          IF endpoints[i] = c.endpoint THEN descriptorAfter(c.endpoint, c.params) ELSE endpoints[i]]

endpointMapAfter(c) ==
  IF c.pc = "idle" \/ c.params = None \/ c.endpoint = Undef THEN endpointMap
  ELSE [i \in 1..Len(endpointMap) |->
          IF endpointMap[i][2] = c.endpoint
            THEN <<endpointMap[i][1], descriptorAfter(c.endpoint, c.params)>>
            ELSE endpointMap[i]]

\* exec of a tool: DataAPIToolHandler.executeEndpoint up to the await of the
\* dispatcher's transport call. client is the dataAPIClient of the context.
Exec(c, client) ==
  IF client = Null THEN Settle(c, Resolved(createErrorResponse(NotInitializedMsg)))
  ELSE IF BuildThrows(endpointMap, c.name, c.args)
    THEN Settle(c, Resolved(createErrorResponse(SplitTypeErrorMsg)))
  ELSE LET c1 == Dispatch(c, buildRequestParams(endpointMap, c.name, c.args))
       IN IF c1.pc = "awaitTransport" THEN c1 ELSE AfterDispatch(c1)

\* BaseToolHandler.handle after canHandle: the operation's validate, then exec
Handle(c, client) ==
  IF c.name \notin DOMAIN ToolConfig THEN Settle(c, Rejected(Error(UnsupportedToolMsg(c.name))))
  ELSE LET missing == validateArgs(c.args, ToolConfig[c.name])
       IN IF missing # << >>
            THEN Settle(c, Resolved(createErrorResponse(RequiredMsg(missing[1]))))
            ELSE Exec(c, client)

\* The CallTool request handler of the server, up to the first transport call.
CallTool ==
  /\ call.pc = "idle"
  /\ \E name \in CallNames, args \in ArgBags :
       LET c == NewCall("server", name, args)
           inTable == name \in DOMAIN ToolConfig
           client == IF isInitialized \/ ~inTable THEN dataAPIClient
                     ELSE onInitialize(capabilities, config, dataAPIClient)
       IN IF ~canHandle(toolNameSet, name)
            THEN /\ call' = [c EXCEPT !.result = CallToolResult(Rejected(Error(UnknownToolMsg(name))))]
                 /\ UNCHANGED <<isInitialized, dataAPIClient>>
            ELSE /\ call' = Handle(c, client)
                 /\ dataAPIClient' = client
                 /\ isInitialized' = (isInitialized \/ inTable)
  /\ endpoints' = endpointsAfter(call')
  /\ endpointMap' = endpointMapAfter(call')
  /\ UNCHANGED <<catalogRead, server, toolNameSet, peer>>

\* A direct call of DataAPIClient.executeEndpoint(toolName, params).
ClientExecute ==
  /\ call.pc = "idle"
  /\ \E name \in CallNames, params \in ParamSamples :
       LET c1 == Dispatch(NewCall("client", name, None), params)
       IN call' = IF c1.pc = "awaitTransport" THEN c1 ELSE [c1 EXCEPT !.pc = "done"]
  /\ endpoints' = endpointsAfter(call')
  /\ endpointMap' = endpointMapAfter(call')
  /\ UNCHANGED <<catalogRead, server, handler, peer>>

\* the awaited transport call settles and the call runs to its end
Finish(c, returned) ==
  LET c1 == [c EXCEPT !.pc = "done", !.returned = returned]
  IN IF c.entry = "client" THEN c1 ELSE AfterDispatch(c1)

\* the transport call resolves with a payload
TransportResolve ==
  /\ call.pc = "awaitTransport"
  /\ \E payload \in Payloads, status \in TransportStatuses :
       call' = Finish([call EXCEPT !.transportStatus = status, !.transportPayload = payload],
                      executeEndpointResolved(payload))
  /\ UNCHANGED <<registry, server, handler, peer>>

\* the transport call throws or rejects
TransportReject ==
  /\ call.pc = "awaitTransport"
  /\ \E error \in TransportErrors :
       call' = Finish([call EXCEPT !.transportError = error], executeEndpointRejected(error))
  /\ UNCHANGED <<registry, server, handler, peer>>

\* the ListTools handler that pushes every group whatever the capabilities
ToolsFor_all(caps) ==
  <<"SFCC_DOCUMENTATION_TOOLS", "BEST_PRACTICES_TOOLS", "SFRA_DOCUMENTATION_TOOLS",
    "LOG_TOOLS", "JOB_LOG_TOOLS", "SYSTEM_OBJECT_TOOLS", "CODE_VERSION_TOOLS", "DATA_API_TOOLS">>

\* The ListTools request handler: the groups of tool definitions it pushes,
\* in the order it pushes them.
ToolsFor(caps) ==
  <<"SFCC_DOCUMENTATION_TOOLS", "BEST_PRACTICES_TOOLS", "SFRA_DOCUMENTATION_TOOLS">>
  \o (IF caps.canAccessLogs THEN <<"LOG_TOOLS", "JOB_LOG_TOOLS">> ELSE << >>)
  \o (IF caps.canAccessOCAPI
        THEN <<"SYSTEM_OBJECT_TOOLS", "CODE_VERSION_TOOLS", "DATA_API_TOOLS">> ELSE << >>)

\* a ListTools request is answered
ListTools ==
  /\ call.pc = "idle"
  /\ call' = [NewCall("list", "tools/list", None) EXCEPT !.result = [tools |-> ToolsFor(capabilities)]]
  /\ UNCHANGED <<registry, server, handler, peer>>

\* onDispose() that keeps the dispatcher
onDispose_keep(client) == client

\* DataAPIToolHandler.onDispose(): the dataAPIClient field afterwards
onDispose(client) == Null

\* BaseToolHandler.dispose(): onDispose, and the handler is no longer marked
\* initialized
Dispose ==
  /\ dataAPIClient' = onDispose(dataAPIClient)
  /\ isInitialized' = FALSE
  /\ UNCHANGED <<registry, server, toolNameSet, call, peer>>

\* the request is answered; the next one may come
Return ==
  /\ call.pc = "done"
  /\ call' = IdleCall
  /\ UNCHANGED <<registry, server, handler, peer>>

\* The constructor of the server computes the capabilities of its configuration.
Construct ==
  /\ capabilities = None
  /\ capabilities' = getCapabilities(config)
  /\ UNCHANGED <<registry, config, handler, call, peer>>

\* the configurations of CapabilityConfigs, each before and after construction
InitCapabilities ==
  /\ endpoints = loadEndpoints(<< >>, CatalogA)[1]
  /\ endpointMap = loadEndpoints(<< >>, CatalogA)[2]
  /\ catalogRead = CatalogA
  /\ config \in CapabilityConfigs
  /\ capabilities = None
  /\ toolNameSet = getToolNameSet(endpoints)
  /\ isInitialized = FALSE
  /\ dataAPIClient = Null
  /\ call = IdleCall
  /\ peer = IdleCall

SpecCapabilities == InitCapabilities /\ [][Construct]_vars

\* ---------------------------------------------- two requests at a time
S_siteA == <<"A">>
S_siteB == <<"B">>
SiteIds == {S_siteA, S_siteB}

Bag(given) == [k \in ArgNames |-> IF k \in DOMAIN given THEN given[k] ELSE Undef]

\* the tools and arguments of the concurrent requests
ConcurrentNames == {"search_products", "get_product", "get_catalogs"}
ConcurrentArgs ==
  {Bag(<< >>),
   Bag([site_id |-> Str(S_siteA), product_id |-> Str(<<"p">>)]),
   Bag([site_id |-> Str(S_siteB), product_id |-> Num(42), expand |-> Str(<<"a">>)]),
   Bag([site_id |-> Str(S_siteB), query |-> Str(S_shoes), count |-> Num(0)])}

\* DataAPIClient.getSiteId()
getSiteId(client) == client.siteId

\* DataAPIClient.setSiteId(siteId)
SetSiteId ==
  /\ dataAPIClient # Null
  /\ \E s \in SiteIds : dataAPIClient' = [dataAPIClient EXCEPT !.siteId = Str(s)]
  /\ UNCHANGED <<registry, server, toolNameSet, isInitialized, call, peer>>

\* handle is entered for the request of a slot: the operation's validate, then
\* createExecutionContext up to its await of initialize(), whose onInitialize
\* has run when the handler was not marked initialized
Begin(slot, slotNext) ==
  /\ slot.pc = "idle"
  /\ \E name \in ConcurrentNames, args \in ConcurrentArgs :
       LET c == NewCall("server", name, args)
           missing == validateArgs(args, ToolConfig[name])
       IN IF missing # << >>
            THEN /\ slotNext = Settle(c, Resolved(createErrorResponse(RequiredMsg(missing[1]))))
                 /\ UNCHANGED dataAPIClient
            ELSE /\ slotNext = [c EXCEPT !.pc = "awaitInit"]
                 /\ dataAPIClient' = IF isInitialized THEN dataAPIClient
                                     ELSE onInitialize(capabilities, config, dataAPIClient)
  /\ UNCHANGED <<registry, server, toolNameSet, isInitialized>>

\* exec that builds and dispatches the request of the other slot when that
\* slot is waiting for its transport call
Continue_shared(slot, slotNext, other) ==
  /\ slot.pc = "awaitInit"
  /\ isInitialized' = TRUE
  /\ slotNext = [Exec(IF other.pc = "awaitTransport"
                        THEN [slot EXCEPT !.name = other.name, !.args = other.args]
                        ELSE slot, dataAPIClient)
                   EXCEPT !.name = slot.name, !.args = slot.args, !.site = getSiteId(dataAPIClient)]
  /\ UNCHANGED <<registry, server, toolNameSet, dataAPIClient>>

\* initialize() has returned for the request of a slot: the context takes the
\* handler's dataAPIClient and exec runs up to the await of the transport call
Continue(slot, slotNext, other) ==
  /\ slot.pc = "awaitInit"
  /\ isInitialized' = TRUE
  /\ slotNext = [Exec(slot, dataAPIClient) EXCEPT !.site = getSiteId(dataAPIClient)]
  /\ endpoints' = endpointsAfter(slotNext)
  /\ endpointMap' = endpointMapAfter(slotNext)
  /\ UNCHANGED <<catalogRead, server, toolNameSet, dataAPIClient>>

\* the transport call of a slot settles and its request runs to its end
Answer(slot, slotNext) ==
  /\ slot.pc = "awaitTransport"
  /\ \/ \E payload \in Payloads, status \in TransportStatuses :
          slotNext = Finish([slot EXCEPT !.transportStatus = status, !.transportPayload = payload],
                            executeEndpointResolved(payload))
     \/ \E error \in TransportErrors :
          slotNext = Finish([slot EXCEPT !.transportError = error], executeEndpointRejected(error))
  /\ UNCHANGED <<registry, server, handler>>

CallBegins == Begin(call, call') /\ UNCHANGED peer
PeerBegins == Begin(peer, peer') /\ UNCHANGED call
CallContinues == Continue(call, call', peer) /\ UNCHANGED peer
PeerContinues == Continue(peer, peer', call) /\ UNCHANGED call
CallAnswered == Answer(call, call') /\ UNCHANGED peer
PeerAnswered == Answer(peer, peer') /\ UNCHANGED call

PeerReturn ==
  /\ peer.pc = "done"
  /\ peer' = IdleCall
  /\ UNCHANGED <<registry, server, handler, call>>

InitConcurrent ==
  /\ endpoints = loadEndpoints(<< >>, CatalogA)[1]
  /\ endpointMap = loadEndpoints(<< >>, CatalogA)[2]
  /\ catalogRead = CatalogA
  /\ config = ConfigOAuth
  /\ capabilities = getCapabilities(config)
  /\ toolNameSet = getToolNameSet(endpoints)
  /\ isInitialized = FALSE
  /\ dataAPIClient = Null
  /\ call = IdleCall
  /\ peer = IdleCall

NextConcurrent ==
  \/ SetSiteId
  \/ CallBegins
  \/ PeerBegins
  \/ CallContinues
  \/ PeerContinues
  \/ CallAnswered
  \/ PeerAnswered
  \/ Return
  \/ PeerReturn

SpecConcurrent == InitConcurrent /\ [][NextConcurrent]_vars

Next ==
  \/ Reload
  \/ ListTools
  \/ Dispose
  \/ CallTool
  \/ ClientExecute
  \/ TransportResolve
  \/ TransportReject
  \/ Return

Spec == Init /\ [][Next]_vars

\* ================================================================ properties
\* the call in progress has entered DataAPIClient.executeEndpoint
Entered == call.pc # "idle" /\ call.dispatched > 0
\* ... and its registry lookup found a descriptor
EnteredKnown == Entered /\ call.endpoint # Undef

SupportedMethods == {"GET", "POST", "PUT", "PATCH", "DELETE"}

\* C1: executeEndpoint called with a tool name the registry does not know
\* returns {success:false, status:400, error:"Unknown endpoint: <toolName>"}
\* at once and makes no transport call, whatever the params.
C1_UnknownEndpoint ==
  (Entered /\ call.endpoint = Undef) =>
     /\ call.pc = "done"
     /\ call.returned =
          [settled |-> "resolved",
           value |-> [data |-> Null, status |-> 400, success |-> FALSE,
                      error |-> <<"Unknown endpoint: ", call.name>>]]
     /\ call.sent = << >>

\* a direct call with a body in its params has met a registry miss
C1_Witness ==
  /\ Entered /\ call.pc = "done" /\ call.entry = "client"
  /\ call.endpoint = Undef
  /\ call.params.body # Undef
  /\ call.returned.value.status = 400

\* C2: for a known endpoint executeEndpoint never rejects: a transport call
\* that throws or rejects gives {success:false, status:500, error:<message>,
\* data:null}, and a method outside GET/POST/PUT/PATCH/DELETE gives
\* {success:false, status:500, error:"Unsupported HTTP method: <method>"}
\* with no transport call.
C2_NeverRejects ==
  EnteredKnown =>
     /\ call.pc = "done" => call.returned # None /\ call.returned.settled = "resolved"
     /\ call.transportError # None =>
          /\ call.pc = "done"
          /\ call.returned.value =
               [data |-> Null, status |-> 500, success |-> FALSE,
                error |-> IF call.transportError.isError THEN call.transportError.message
                          ELSE StringOf(call.transportError.value)]
     /\ call.endpoint.method \notin SupportedMethods =>
          /\ call.pc = "done"
          /\ call.returned.value =
               [data |-> Null, status |-> 500, success |-> FALSE,
                error |-> <<"Unsupported HTTP method: ", call.endpoint.method>>]
          /\ call.sent = << >>

\* the transport has thrown an Error for a known endpoint
C2_Witness ==
  /\ EnteredKnown /\ call.pc = "done"
  /\ call.transportError # None /\ call.transportError.isError
  /\ call.returned.value.error = <<"API Error">>

Verb(method) ==
  CASE method = "GET" -> "get" [] method = "POST" -> "post" [] method = "PUT" -> "put"
    [] method = "PATCH" -> "patch" [] OTHER -> "delete"

\* C3: for a known endpoint with a supported method one executeEndpoint call
\* makes exactly one transport call and never a second one; GET and DELETE
\* get the URL only, POST/PUT/PATCH the URL and the built body; a payload p
\* gives {success:true, status:200, data:p} whatever status the transport
\* saw; every result has success exactly when status = 200 and exactly when
\* it has no error.
C3_OneTransportCall ==
  /\ (EnteredKnown /\ call.endpoint.method \in SupportedMethods) =>
       /\ Len(call.sent) = 1
       /\ call.sent[1].verb = Verb(call.endpoint.method)
       /\ call.sent[1].arguments[1] = buildUrl(call.endpoint, call.params)
       /\ call.endpoint.method \in {"GET", "DELETE"} => Len(call.sent[1].arguments) = 1
       /\ call.endpoint.method \in {"POST", "PUT", "PATCH"} =>
            /\ Len(call.sent[1].arguments) = 2
            /\ call.sent[1].arguments[2] = buildRequestBody(call.endpoint, call.params)
       /\ call.transportPayload # None =>
            call.returned = [settled |-> "resolved",
                             value |-> [data |-> call.transportPayload, status |-> 200, success |-> TRUE]]
  /\ (Entered /\ call.pc = "done" /\ call.returned.settled = "resolved") =>
       /\ call.returned.value.success <=> call.returned.value.status = 200
       /\ call.returned.value.success <=> "error" \notin DOMAIN call.returned.value

\* a DELETE call has been answered by the transport with status 201
C3_Witness ==
  /\ EnteredKnown /\ call.pc = "done"
  /\ call.endpoint.method = "DELETE"
  /\ call.transportStatus = 201
  /\ call.returned.value.success

\* the call in progress came through handle for a name the handler owns
Owned == call.pc # "idle" /\ call.entry = "server" /\ canHandle(toolNameSet, call.name)
\* the error text of an envelope
ErrorText(envelope) == envelope.text.body.message

DeclaredRequired ==
  [get_product |-> <<"site_id", "product_id">>,
   search_promotions |-> <<"site_id">>,
   search_coupons |-> <<"site_id">>]

\* C5: for a tool with a required-argument list, handle called without one
\* of those arguments returns an isError envelope whose text names the
\* first missing one in list order, and executeEndpoint is not called.
C5_RequiredArguments ==
  (Owned /\ call.name \in DOMAIN DeclaredRequired) =>
     LET required == DeclaredRequired[call.name]
         missing == {i \in 1..Len(required) : call.args[required[i]] = Undef}
     IN missing # {} =>
          /\ call.pc = "done"
          /\ call.handled.settled = "resolved"
          /\ call.handled.value.isError
          /\ \E i \in missing :
               /\ \A j \in missing : i <= j
               /\ ErrorText(call.handled.value)[1] = required[i]
          /\ call.dispatched = 0

\* get_product has been called with neither site_id nor product_id on a
\* handler that could reach the API
C5_Witness ==
  /\ Owned /\ call.pc = "done" /\ call.name = "get_product"
  /\ capabilities.canAccessOCAPI
  /\ call.args.site_id = Undef /\ call.args.product_id = Undef
  /\ ErrorText(call.handled.value)[1] = "site_id"

\* C6: when the dispatcher is reached, the envelope of handle mirrors its
\* result: isError exactly when success is false, then with the
\* dispatcher's error string as text ("Unknown error occurred" when there
\* is none); on success the payload is the dispatcher's data.
C6_EnvelopeMirrorsResponse ==
  (call.pc = "done" /\ call.entry = "server" /\ call.dispatched > 0) =>
     /\ call.handled.settled = "resolved"
     /\ LET response == call.returned.value
            envelope == call.handled.value
        IN /\ envelope.isError <=> ~response.success
           /\ ~response.success =>
                envelope.text.body =
                  [message |-> IF "error" \in DOMAIN response THEN response.error
                               ELSE <<"Unknown error occurred">>]
           /\ response.success => envelope.text.body = [json |-> response.data]

\* handle has surfaced a failure of the dispatcher
C6_Witness ==
  /\ call.pc = "done" /\ call.entry = "server" /\ call.dispatched > 0
  /\ call.returned.value.status = 500
  /\ call.handled.value.isError

\* C7: the CallTool handler of the server answers every request with a
\* {content, isError} envelope and never throws: a name no handler accepts
\* gives isError with "Error: Unknown tool: <name>", an exception of
\* handler.handle gives isError with "Error: <message>".
C7_ServerEnvelope ==
  (call.pc = "done" /\ call.entry = "server") =>
     /\ DOMAIN call.result = {"isError", "text"}
     /\ ~canHandle(toolNameSet, call.name) =>
          call.result = [isError |-> TRUE,
                         text |-> [prefix |-> "Error: ",
                                   body |-> [message |-> <<"Unknown tool: ", call.name>>]]]
     /\ (canHandle(toolNameSet, call.name) /\ call.handled.settled = "rejected") =>
          call.result = [isError |-> TRUE,
                         text |-> [prefix |-> "Error: ",
                                   body |-> [message |-> call.handled.error.message]]]

\* handle has rejected and the server has answered
C7_Witness ==
  /\ call.pc = "done" /\ call.entry = "server"
  /\ canHandle(toolNameSet, call.name)
  /\ call.handled.settled = "rejected"
  /\ call.result.isError

\* the request builder has run for a descriptor of the registry
Built == call.pc # "idle" /\ call.entry = "server" /\ call.dispatched > 0 /\ call.endpoint # Undef
Given(n) == IF n \in DOMAIN call.args THEN call.args[n] ELSE Undef
Present(v) == v.t \notin {"undefined", "null"} /\ v # [t |-> "string", s |-> << >>]
DeclaredNames == {call.endpoint.parameters[i].name : i \in 1..Len(call.endpoint.parameters)}

\* C8: buildRequestParams puts every declared parameter with a present
\* argument into exactly one segment: a parameter named in the path goes to
\* pathParams as String(value) and not to queryParams, any other parameter
\* but query goes to queryParams unchanged; the key sets of pathParams and
\* queryParams are disjoint and query is never a key of queryParams.
C8_Classification ==
  Built =>
     /\ \A n \in DeclaredNames :
          Present(Given(n)) =>
            /\ PathIncludes(call.endpoint.path, n) =>
                 /\ Has(call.params.pathParams, n)
                 /\ Get(call.params.pathParams, n) = [t |-> "string", s |-> StringOf(Given(n))]
                 /\ ~Has(call.params.queryParams, n)
            /\ (~PathIncludes(call.endpoint.path, n) /\ n # "query") =>
                 /\ Has(call.params.queryParams, n)
                 /\ Get(call.params.queryParams, n) = Given(n)
                 /\ ~Has(call.params.pathParams, n)
     /\ Keys(call.params.pathParams) \cap Keys(call.params.queryParams) = {}
     /\ "query" \notin Keys(call.params.queryParams)

\* get_product has been built with a numeric product_id and a site_id
C8_Witness ==
  /\ Built /\ call.name = "get_product"
  /\ call.args.product_id = [t |-> "number", n |-> 42]
  /\ Get(call.params.pathParams, "product_id") = [t |-> "string", s |-> <<"4", "2">>]
  /\ Has(call.params.queryParams, "site_id")

\* C9: a declared parameter whose argument is undefined, null or '' is in
\* neither pathParams nor queryParams, the falsy values 0 and false are
\* kept, and every key of pathParams or queryParams is a declared parameter.
C9_BlankSkippedFalsyKept ==
  Built =>
     /\ \A n \in DeclaredNames :
          /\ ~Present(Given(n)) =>
               ~Has(call.params.pathParams, n) /\ ~Has(call.params.queryParams, n)
          /\ (n # "query" /\ Given(n) \in {[t |-> "number", n |-> 0], [t |-> "boolean", b |-> FALSE]}) =>
               Has(call.params.pathParams, n) \/ Has(call.params.queryParams, n)
     /\ Keys(call.params.pathParams) \cup Keys(call.params.queryParams) \subseteq DeclaredNames

\* get_catalogs has been built with count 0, start false and an undeclared
\* argument
C9_Witness ==
  /\ Built /\ call.name = "get_catalogs"
  /\ call.args.count = [t |-> "number", n |-> 0]
  /\ call.args.start = [t |-> "boolean", b |-> FALSE]
  /\ call.args.locale # Undef
  /\ Keys(call.params.queryParams) = {"count", "start"}

\* C10: for search_promotions with a non-empty campaign_id the built
\* body.query is exactly the term query on campaign_id, with or without a
\* query argument; for every tool and args the built body.query never holds
\* both text_query and term_query.
C10_CampaignTermQuery ==
  (Built /\ call.params.body # Undef) =>
     /\ (call.name = "search_promotions" /\ Present(call.args.campaign_id)) =>
          /\ "query" \in DOMAIN call.params.body
          /\ call.params.body.query =
               [term_query |-> [fields |-> <<"campaign_id">>, operator |-> "is",
                                values |-> <<call.args.campaign_id>>]]
     /\ "query" \in DOMAIN call.params.body =>
          ~({"text_query", "term_query"} \subseteq DOMAIN call.params.body.query)

\* search_promotions has been built with both a campaign_id and a query
C10_Witness ==
  /\ Built /\ call.params.body # Undef
  /\ call.name = "search_promotions"
  /\ Present(call.args.campaign_id) /\ Present(call.args.query)
  /\ "term_query" \in DOMAIN call.params.body.query

\* the request builder has run for a descriptor that has a default body
BuiltWithDefault == Built /\ call.endpoint.defaultBody # Undef
\* the campaign filter of search_promotions applies to the call
CampaignOverride == call.name = "search_promotions" /\ Present(call.args.campaign_id)
\* the search fields the specification lists for a tool
SearchFields ==
  CASE call.name = "search_products" -> <<"id", "name">>
    [] call.name = "search_customers" -> <<"email", "first_name", "last_name">>
    [] call.name = "search_orders" -> <<"order_no", "customer_email">>
    [] OTHER -> <<"id", "name">>

\* C11 as stated (the campaign filter of search_promotions aside): for an
\* endpoint with a default body, a query argument makes the built body.query
\* {text_query:{fields:F, search_phrase:query}} with F the search fields of
\* the tool, and without a query argument body.query is the default body's.
C11_Original ==
  (BuiltWithDefault /\ ~CampaignOverride) =>
     /\ call.params.body # Undef
     /\ Present(call.args.query) =>
          call.params.body.query =
            [text_query |-> [fields |-> SearchFields, search_phrase |-> call.args.query]]
     /\ ~Present(call.args.query) =>
          call.params.body.query = call.endpoint.defaultBody.query

\* the body the dispatcher handed to the transport
SentBody == call.sent[1].arguments[2]
\* a handler call for a descriptor with a default body has sent a body
SentWithDefault ==
  /\ BuiltWithDefault
  /\ call.endpoint.method \in {"POST", "PUT", "PATCH"}
  /\ Len(call.sent) = 1

\* C12 as stated: for an endpoint with a default body the body sent has
\* count equal to args.count when that argument is given and the default
\* body's count otherwise, and the same for start; search_products with
\* site_id, query "shoes" and a count sends exactly the text query, that
\* count and start 0.
C12_Original ==
  SentWithDefault =>
     /\ call.args.count # Undef => SentBody.count = call.args.count
     /\ (call.args.count = Undef /\ "count" \in DOMAIN call.endpoint.defaultBody) =>
          SentBody.count = call.endpoint.defaultBody.count
     /\ call.args.start # Undef => SentBody.start = call.args.start
     /\ (call.args.start = Undef /\ "start" \in DOMAIN call.endpoint.defaultBody) =>
          SentBody.start = call.endpoint.defaultBody.start
     /\ (/\ call.name = "search_products"
         /\ call.args.query = [t |-> "string", s |-> <<"s", "h", "o", "e", "s">>]
         /\ call.args.count # Undef /\ call.args.start = Undef /\ call.args.expand = Undef) =>
          SentBody =
            [query |-> [text_query |-> [fields |-> <<"id", "name">>, search_phrase |-> call.args.query]],
             count |-> call.args.count,
             start |-> [t |-> "number", n |-> 0]]

\* C13 as stated: for an endpoint with a default body an expand argument
\* given as a comma-separated string makes body.expand the list of its
\* items in order, each trimmed; without an expand argument, or with an
\* empty one, the body has no expand field.
C13_Original ==
  SentWithDefault =>
     /\ call.args.expand = [t |-> "string", s |-> <<"a", ",", " ", "b">>] =>
          /\ "expand" \in DOMAIN SentBody
          /\ SentBody.expand = << <<"a">>, <<"b">> >>
     /\ ~Present(call.args.expand) => "expand" \notin DOMAIN SentBody

\* a handler call that gives an explicit body argument has sent a body
SentWithCallerBody ==
  /\ Built /\ call.args.body # Undef
  /\ call.endpoint.method \in {"POST", "PUT", "PATCH"}
  /\ Len(call.sent) = 1

\* C14 as stated: the fields of an explicit body given to build are
\* assigned on top of the default-body seed, a caller field winning over the
\* default of the same name, except that a caller-supplied query does not
\* win over the text query or the campaign term query.
C14_Original ==
  SentWithCallerBody =>
     \A k \in DOMAIN call.args.body.o :
        (k # "query" \/ ~(Present(call.args.query) \/ CampaignOverride)) =>
           /\ k \in DOMAIN SentBody
           /\ (k \notin {"count", "start", "expand"} \/ call.args[k] = Undef) =>
                SentBody[k] = call.args.body.o[k]

\* C14 amended: build never reads an explicit body argument, so a body
\* object in args changes neither the built params nor the body sent; the
\* only caller-supplied body is the params.body given to
\* DataAPIClient.executeEndpoint, each field of which, query included, is in
\* the body sent with the caller's value; for a handler call params.body is
\* the built body, whose text query or term query wins over the default
\* body's query.
C14_BodyArgumentIgnored ==
  /\ (Built /\ call.args.body # Undef) =>
       /\ call.params =
            buildRequestParams(<< <<call.name, call.endpoint>> >>, call.name,
                               [call.args EXCEPT !.body = [t |-> "undefined"]])
       /\ call.params.body # Undef => "custom_field" \notin DOMAIN call.params.body
       /\ (Len(call.sent) = 1 /\ Len(call.sent[1].arguments) = 2) =>
            "custom_field" \notin DOMAIN SentBody
  /\ (EnteredKnown /\ call.entry = "client" /\ call.params.body # Undef
        /\ call.endpoint.method \in {"POST", "PUT", "PATCH"}) =>
       \A k \in DOMAIN call.params.body : k \in DOMAIN SentBody /\ SentBody[k] = call.params.body[k]
  /\ (Built /\ call.params.body # Undef /\ (Present(call.args.query) \/ CampaignOverride)) =>
       /\ SentBody.query = call.params.body.query
       /\ SentBody.query # call.endpoint.defaultBody.query

\* search_products has been called with an explicit body argument and a
\* body has been sent without its fields
C14_Witness ==
  /\ SentWithCallerBody /\ call.name = "search_products"
  /\ call.args.body.o.count = [t |-> "number", n |-> 5]
  /\ SentBody.count = [t |-> "number", n |-> 25]
  /\ "custom_field" \notin DOMAIN SentBody

\* the dispatcher has sent a body for a known endpoint
SentMutating ==
  /\ EnteredKnown
  /\ call.endpoint.method \in {"POST", "PUT", "PATCH"}

\* C15: for POST, PUT and PATCH the body sent is the shallow merge of the
\* descriptor's defaultBody ({} when there is none) overlaid with
\* params.body: every defaultBody field not named in params.body is kept,
\* every params.body field is there with the caller's value, and with
\* neither a default body nor a params.body the body sent is the empty
\* object, never absent.
C15_ShallowMerge ==
  SentMutating =>
     /\ Len(call.sent) = 1 /\ Len(call.sent[1].arguments) = 2
     /\ LET hasDefault == call.endpoint.defaultBody # [t |-> "undefined"]
            hasCaller == call.params.body # [t |-> "undefined"]
            defaultKeys == IF hasDefault THEN DOMAIN call.endpoint.defaultBody ELSE {}
            callerKeys == IF hasCaller THEN DOMAIN call.params.body ELSE {}
        IN /\ DOMAIN SentBody = defaultKeys \cup callerKeys
           /\ \A k \in callerKeys : SentBody[k] = call.params.body[k]
           /\ \A k \in defaultKeys \ callerKeys : SentBody[k] = call.endpoint.defaultBody[k]

\* a direct search_products call whose params.body overrides count has sent
\* the caller's count and the default start
C15_Witness ==
  /\ SentMutating /\ call.entry = "client" /\ call.name = "search_products"
  /\ call.params.body # [t |-> "undefined"]
  /\ SentBody.count = [t |-> "number", n |-> 5]
  /\ SentBody.start = [t |-> "number", n |-> 0]
  /\ "custom_field" \in DOMAIN SentBody

\* a direct patch_item call with no params.body and no default body has
\* sent the empty object
C15_EmptyBodySent ==
  /\ SentMutating /\ call.name = "patch_item"
  /\ call.params.body = [t |-> "undefined"]
  /\ DOMAIN SentBody = {}

\* C16 as stated: for every descriptor with a defaultBody whose method is
\* POST, PUT or PATCH, build seeds the body from a clone of defaultBody and
\* applies the query, count, start and expand handling to it.
C16_Original ==
  (BuiltWithDefault /\ call.endpoint.method \in {"POST", "PUT", "PATCH"}) =>
     /\ call.params.body # [t |-> "undefined"]
     /\ DOMAIN call.endpoint.defaultBody \subseteq DOMAIN call.params.body
     /\ (Present(call.args.query) /\ ~CampaignOverride) =>
          call.params.body.query =
            [text_query |-> [fields |-> SearchFields, search_phrase |-> call.args.query]]
     /\ call.args.count # Undef => call.params.body.count = call.args.count
     /\ call.args.start # Undef => call.params.body.start = call.args.start
     /\ (call.args.expand.t = "string" /\ Present(call.args.expand)) =>
          "expand" \in DOMAIN call.params.body

\* the URL the dispatcher handed to the transport
SentUrl == call.sent[1].arguments[1]
\* a queryParams entry that is not null, undefined or ''
Survives(entry) == Present(entry[2])

RECURSIVE QueryString(_)
\* key=value of each entry, encoded, joined by &
QueryString(entries) ==
  IF entries = << >> THEN << >>
  ELSE <<EncodeKey(Head(entries)[1]), "=">> \o encodeURIComponent(StringOf(Head(entries)[2]))
       \o (IF Len(entries) = 1 THEN << >> ELSE <<"&">> \o QueryString(Tail(entries)))

\* C17: the query string of buildUrl holds exactly the queryParams entries
\* whose value is not null, undefined or '', in insertion order, each as
\* encoded key = encoded value, joined by & after a single ?; when no entry
\* survives the URL has no ?; queryParams {count:10, empty:"", nullish:null}
\* on /catalogs gives exactly /catalogs?count=10.
C17_QueryString ==
  (EnteredKnown /\ Len(call.sent) = 1) =>
     LET surviving == SelectSeq(call.params.queryParams, Survives)
         marks == {i \in 1..Len(SentUrl) : SentUrl[i] = "?"}
     IN /\ surviving = << >> => marks = {}
        /\ surviving # << >> =>
             /\ Cardinality(marks) = 1
             /\ \A i \in marks : SubSeq(SentUrl, i + 1, Len(SentUrl)) = QueryString(surviving)
        /\ (/\ call.endpoint.path = <<[lit |-> <<"/", "c", "a", "t", "a", "l", "o", "g", "s">>]>>
            /\ call.params.queryParams =
                 <<<<"count", [t |-> "number", n |-> 10]>>, <<"empty", [t |-> "string", s |-> << >>]>>,
                   <<"nullish", [t |-> "null"]>>>>) =>
             SentUrl = <<"/", "c", "a", "t", "a", "l", "o", "g", "s", "?", "count", "=", "1", "0">>
        /\ (/\ call.endpoint.path = <<[lit |-> <<"/", "c", "a", "t", "a", "l", "o", "g", "s">>]>>
            /\ call.params.queryParams =
                 <<<<"a b", [t |-> "string", s |-> <<"x", "&", "y">>]>>,
                   <<"flag", [t |-> "boolean", b |-> FALSE]>>, <<"n", [t |-> "number", n |-> 0]>>>>) =>
             SentUrl = <<"/", "c", "a", "t", "a", "l", "o", "g", "s", "?", "a%20b", "=", "x", "%", "2", "6", "y",
                         "&", "flag", "=", "f", "a", "l", "s", "e", "&", "n", "=", "0">>

\* get_catalogs has been dispatched with count 10, an empty and a null
\* query parameter
C17_Witness ==
  /\ EnteredKnown /\ Len(call.sent) = 1 /\ call.name = "get_catalogs"
  /\ Len(call.params.queryParams) = 3
  /\ call.params.queryParams[2][1] = "empty"
  /\ SentUrl = <<"/", "c", "a", "t", "a", "l", "o", "g", "s", "?", "count", "=", "1", "0">>

\* the descriptor path with every placeholder that has a pathParams entry
\* replaced by the encoded value, rendered as characters
AllReplaced ==
  RenderPath([i \in 1..Len(call.endpoint.path) |->
                IF IsPh(call.endpoint.path[i]) /\ Has(call.params.pathParams, call.endpoint.path[i].ph)
                  THEN [lit |-> encodeURIComponent(StringOf(Get(call.params.pathParams,
                                                                call.endpoint.path[i].ph)))]
                  ELSE call.endpoint.path[i]])

\* C18 as stated: buildUrl replaces every occurrence of each {param}
\* placeholder of the path by the encoded pathParams value of that name,
\* leaves a placeholder without a pathParams entry verbatim and still
\* dispatches, and a pathParams key without a placeholder changes nothing.
C18_Original ==
  (EnteredKnown /\ call.endpoint.method \in SupportedMethods) =>
     /\ Len(call.sent) = 1
     /\ Len(SentUrl) >= Len(AllReplaced)
     /\ SubSeq(SentUrl, 1, Len(AllReplaced)) = AllReplaced

\* C19 as stated: in every state of the EndpointLoader the loaded
\* descriptors have pairwise distinct toolNames and the list and the index
\* agree: each descriptor d of getEndpoints() is getEndpoint(d.toolName),
\* hasEndpoint(d.toolName) is true, and hasEndpoint is true only for names
\* of getToolNames().
C19_Original ==
  /\ \A i, j \in 1..Len(endpoints) :
        i # j => endpoints[i].toolName # endpoints[j].toolName
  /\ \A i \in 1..Len(endpoints) :
        /\ hasEndpoint(endpointMap, endpoints[i].toolName)
        /\ getEndpoint(endpointMap, endpoints[i].toolName) = endpoints[i]
  /\ \A n \in Keys(endpointMap) :
        \E i \in 1..Len(endpoints) : getToolNames(endpoints)[i] = n

\* C20 as stated: when the catalog cannot be read or parsed the registry
\* holds the built-in descriptor get_catalogs and the lookup surface serves
\* it: getToolNames() contains get_catalogs, hasEndpoint("get_catalogs") is
\* true and getEndpoint("get_catalogs") is that descriptor.
C20_Original ==
  ~catalogRead.ok =>
     /\ \E i \in 1..Len(endpoints) :
          /\ getToolNames(endpoints)[i] = "get_catalogs"
          /\ getEndpoint(endpointMap, "get_catalogs") = endpoints[i]
     /\ hasEndpoint(endpointMap, "get_catalogs")

\* ------------------------------------------------------------------- C21
\* the list a load leaves for what it read of the catalog
ListAsRead(read) ==
  IF ~read.ok THEN getDefaultEndpoints
  ELSE IF read.hasList THEN read.endpoints ELSE << >>

\* C21: a step that changes the registry is a reload, which leaves exactly the
\* list of the catalog as that reload read it (the built-in list when the read
\* failed) and an index whose every entry is a descriptor of that list under
\* its own tool name, so nothing that was only in the previous load; a reload
\* that reads what the previous load read leaves the registry as it was; and a
\* step of a call (lookup, build, execute) leaves the registry alone.
C21_ReloadStep ==
  /\ registry' # registry =>
       /\ call' = call
       /\ endpoints' = ListAsRead(catalogRead')
       /\ \A i \in 1..Len(endpointMap') :
            /\ endpointMap'[i][1] = endpointMap'[i][2].toolName
            /\ \E j \in 1..Len(endpoints') : endpoints'[j] = endpointMap'[i][2]
  /\ catalogRead' = catalogRead => (endpoints' = endpoints /\ endpointMap' = endpointMap)
  /\ call' # call => (endpoints' = endpoints /\ endpointMap' = endpointMap)

Listed == call.pc = "done" /\ call.entry = "list"
Lists(group) == \E i \in 1..Len(call.result.tools) : call.result.tools[i] = group

\* C22: the answer to ListTools holds the Data API, system-object and
\* code-version groups exactly when the configuration gives canAccessOCAPI,
\* the log and job-log groups exactly when it gives canAccessLogs, and the
\* documentation, best-practice and SFRA groups always; the capabilities are
\* those computed from the configuration at construction and neither changes,
\* so every ListTools request of the server's life gets the same answer.
C22_ListedGroups ==
  Listed =>
    /\ \A g \in {"DATA_API_TOOLS", "SYSTEM_OBJECT_TOOLS", "CODE_VERSION_TOOLS"} :
         Lists(g) <=> getCapabilities(config).canAccessOCAPI
    /\ \A g \in {"LOG_TOOLS", "JOB_LOG_TOOLS"} :
         Lists(g) <=> getCapabilities(config).canAccessLogs
    /\ \A g \in {"SFCC_DOCUMENTATION_TOOLS", "BEST_PRACTICES_TOOLS", "SFRA_DOCUMENTATION_TOOLS"} :
         Lists(g)

C22_ListTools ==
  /\ [](C22_ListedGroups /\ capabilities = getCapabilities(config))
  /\ [][config' = config /\ capabilities' = capabilities]_vars

\* a server with log access only has answered ListTools after a reload
C22_Witness ==
  /\ Listed
  /\ capabilities.canAccessLogs /\ ~capabilities.canAccessOCAPI
  /\ Lists("LOG_TOOLS") /\ ~Lists("DATA_API_TOOLS")
  /\ catalogRead # CatalogA /\ "search_products" \in toolNameSet

\* ------------------------------------------------------------------- C23
NonEmpty(v) == v.t = "string" /\ Len(v.s) > 0
NonBlank(v) == v.t = "string" /\ \E i \in 1..Len(v.s) : v.s[i] # " "
UserPair == NonEmpty(config.username) /\ NonEmpty(config.password)
ClientPair == NonEmpty(config.clientId) /\ NonEmpty(config.clientSecret)

\* C23: the capabilities are determined by the configuration alone:
\* canAccessOCAPI exactly when clientId and clientSecret are both non-empty
\* and the hostname is non-blank; canAccessLogs and canAccessWebDAV are equal
\* and hold exactly when the hostname is non-blank and username and password,
\* or clientId and clientSecret, are both non-empty; isLocalMode exactly when
\* the hostname is blank and neither pair is given. So canAccessOCAPI implies
\* canAccessLogs and isLocalMode implies that the three access flags are false.
C23_Capabilities ==
  capabilities # None =>
    /\ capabilities.canAccessOCAPI <=> (ClientPair /\ NonBlank(config.hostname))
    /\ capabilities.canAccessLogs <=> (NonBlank(config.hostname) /\ (UserPair \/ ClientPair))
    /\ capabilities.canAccessWebDAV = capabilities.canAccessLogs
    /\ capabilities.isLocalMode <=> (~NonBlank(config.hostname) /\ ~UserPair /\ ~ClientPair)
    /\ capabilities.canAccessOCAPI => capabilities.canAccessLogs
    /\ capabilities.isLocalMode =>
         (~capabilities.canAccessOCAPI /\ ~capabilities.canAccessLogs /\ ~capabilities.canAccessWebDAV)

\* the capabilities of a configuration with both credential pairs and a
\* hostname of one space have been computed
C23_Witness ==
  /\ capabilities # None
  /\ config.hostname = Str(<<" ">>)
  /\ UserPair /\ ClientPair
  /\ ~capabilities.canAccessOCAPI /\ ~capabilities.isLocalMode

\* ------------------------------------------------------------------- C24
\* the site a dispatched request names: its site_id parameter, in the path
\* or in the query
SentSite(c) ==
  IF Has(c.params.pathParams, "site_id") THEN Get(c.params.pathParams, "site_id")
  ELSE IF Has(c.params.queryParams, "site_id") THEN Get(c.params.queryParams, "site_id")
  ELSE Undef

\* the request of a slot entered the dispatcher while the selector held a
\* value given to setSiteId
UnderSetSite(c) ==
  /\ c.pc \in {"awaitTransport", "done"}
  /\ c.dispatched > 0
  /\ c.site \in {Str(s) : s \in SiteIds}

\* C24 as stated: the value given to setSiteId affects every later call through
\* the instance, so a request dispatched while the selector holds it goes to
\* that site.
C24_Original ==
  \A c \in {call, peer} : UnderSetSite(c) => SentSite(c) = c.site

\* ------------------------------------------------------------------- C25
\* the parameters the descriptor of the dispatched call marks required and
\* the call does not give
MissingRequired(c) ==
  {c.endpoint.parameters[i].name : i \in
     {j \in 1..Len(c.endpoint.parameters) :
        /\ c.endpoint.parameters[j].required
        /\ ArgOf(c.args, c.endpoint.parameters[j].name) = Undef}}

\* C25 as stated: handle validates against the parameter list of the
\* descriptor, so a call that lacks a parameter its descriptor marks required
\* is answered with a validation error and never reaches the dispatcher.
C25_Original ==
  (call.pc # "idle" /\ call.entry = "server" /\ call.dispatched > 0 /\ call.endpoint # Undef)
    => MissingRequired(call) = {}

\* ------------------------------------------------------------------- C26
\* a step of the handler's fields that is not a step of a request: a dispose
DisposeStep ==
  /\ call' = call /\ peer' = peer
  /\ <<isInitialized, dataAPIClient>>' # <<isInitialized, dataAPIClient>>

C26_Step ==
  /\ DisposeStep => dataAPIClient' = Null
  /\ (call' = call /\ peer' = peer /\ dataAPIClient = Null /\ ~isInitialized)
       => (dataAPIClient' = Null /\ ~isInitialized')

\* C26: dispose releases the dispatcher: after it the handler's dataAPIClient
\* is null; disposing again, or disposing a handler that was never initialized
\* or whose capability is closed, leaves the handler as it was, and dispose has
\* no outcome other than returning.
C26_Dispose ==
  /\ [](onDispose(dataAPIClient) = Null /\ onDispose(onDispose(dataAPIClient)) = onDispose(dataAPIClient))
  /\ [][C26_Step]_vars

\* the handler dispatched a request with its dispatcher and has been disposed
\* while the request waits for the transport
C26_Witness ==
  /\ call.pc = "awaitTransport" /\ call.entry = "server"
  /\ capabilities.canAccessOCAPI
  /\ dataAPIClient = Null /\ ~isInitialized

\* ------------------------------------------------------------------- C27
\* a handler whose capability is closed has answered a call of a tool with a
\* required-argument list
ClosedAnswer ==
  /\ ~capabilities.canAccessOCAPI
  /\ Owned /\ call.name \in DOMAIN DeclaredRequired
  /\ call.pc = "done"

FirstMissing(args, required) ==
  LET missing == {i \in 1..Len(required) : args[required[i]] = Undef}
  IN IF missing = {} THEN 0 ELSE CHOOSE i \in missing : \A j \in missing : i <= j

LoadedDescriptors ==
  UNION {{list[i] : i \in 1..Len(list)} : list \in {ListAsRead(read) : read \in CatalogReads}}

C29_Original ==
  (Owned /\ call.pc = "done") => call.handled.settled = "resolved"

\* ------------------------------------------------------------------- C30
\* handle(name, args) run alone on a handler just constructed: the request up
\* to the await of its transport call, or to its end when nothing is sent
AloneStart(name, args) ==
  Handle(NewCall("server", name, args), onInitialize(capabilities, config, Null))

\* ... and to its end, given the answer of the transport to it
Alone(c) ==
  LET c0 == AloneStart(c.name, c.args)
  IN IF c.pc = "awaitTransport" \/ c0.pc = "done" THEN c0
     ELSE IF c.transportError # None
       THEN Finish([c0 EXCEPT !.transportError = c.transportError],
                   executeEndpointRejected(c.transportError))
     ELSE Finish([c0 EXCEPT !.transportStatus = c.transportStatus,
                            !.transportPayload = c.transportPayload],
                 executeEndpointResolved(c.transportPayload))

\* C30: two handle calls through one handler and one dispatcher, interleaved
\* at their await points in any way and with no reload, do not interfere: the
\* request each one sends (verb, URL, body) and the envelope each one gets
\* are those of the same call run alone, a function of its tool name, its
\* arguments and the transport's answer to it.
C30_NoInterference ==
  \A c \in {call, peer} :
    c.pc \in {"awaitTransport", "done"} =>
      /\ c.sent = Alone(c).sent
      /\ c.params = Alone(c).params
      /\ c.handled = Alone(c).handled
      /\ c.result = Alone(c).result
      /\ c.pc = Alone(c).pc

\* two requests for different sites wait for their transport calls at the
\* same time, no setSiteId having come before either was dispatched
C30_Witness ==
  /\ call.pc = "awaitTransport" /\ peer.pc = "awaitTransport"
  /\ call.name # peer.name
  /\ SentSite(call) = Str(S_siteA)
  /\ SentSite(peer) = Str(S_siteB)
  /\ call.site = config.siteId /\ peer.site = config.siteId
====
